---------------------------- MODULE Spec2Model ----------------------------
(***************************************************************************)
(* Model of spikes/tasks/task_runner.py: the relation parser (parse_cells), *)
(* the grid renderer (display_grid) and the batch loop (main).              *)
(*                                                                         *)
(* A Python str is modelled as a sequence of one-character strings, so     *)
(* that substring tests, the regular expression, int() and sorted() are    *)
(* computed character by character as the interpreter computes them.       *)
(***************************************************************************)
EXTENDS Integers, Sequences, FiniteSets, TLC

VARIABLES
    pc,              \* position of the program
    argc,            \* len(sys.argv)
    dirExists,       \* the target directory exists
    taskExists,      \* <directory>/task.lp exists
    listing,         \* the file names in the target directory
    example_files,   \* main's example_files
    idx,             \* 1-based index of the for loop over example_files
    clingo_output,   \* the text under analysis (stdout of the solver)
    predicate_name,  \* parse_cells' predicate_name
    cells,           \* a list of (x, y, color) tuples
    grid_title,      \* display_grid's grid_title
    stdout,          \* the lines printed so far
    exitCode,        \* -1 while running, else the exit status of the process
    calls,           \* history: every subprocess.Popen made, and whether it launched
    outcomes,        \* history: every solver output and its classification
    renders          \* history: every call of display_grid made by main

vars == <<pc, argc, dirExists, taskExists, listing, example_files, idx,
          clingo_output, predicate_name, cells, grid_title, stdout,
          exitCode, calls, outcomes, renders>>

(***************************************************************************)
(* Bounds of the model.                                                     *)
(***************************************************************************)
\* texts given to parse_cells are concatenations of at most MaxFrags fragments
MaxFrags == 3
\* cell lists given to display_grid hold at most MaxCells tuples
MaxCells == 3
\* the directory holds at most MaxExamples files matching example_*_facts.lp
MaxExamples == 2

(***************************************************************************)
(* Characters and strings.                                                  *)
(***************************************************************************)
\* the characters of the model in code point order (what str comparison uses)
CodeOrder ==
    <<"\n", " ", "(", ")", ",", "-", ".",
      "0", "1", "2", "3", "4", "5", "6", "7", "8", "9",
      "A", "B", "C", "D", "E", "F", "G", "H", "I", "J", "K", "L", "M",
      "N", "O", "P", "Q", "R", "S", "T", "U", "V", "W", "X", "Y", "Z",
      "_",
      "a", "b", "c", "d", "e", "f", "g", "h", "i", "j", "k", "l", "m",
      "n", "o", "p", "q", "r", "s", "t", "u", "v", "w", "x", "y", "z">>

Ord(c) == CHOOSE i \in 1..Len(CodeOrder) : CodeOrder[i] = c

Digits == <<"0", "1", "2", "3", "4", "5", "6", "7", "8", "9">>

DigitChars == {Digits[i] : i \in 1..Len(Digits)}

\* letters, digits and the underscore
WordChars ==
    DigitChars \cup {"_"} \cup
    {"A", "B", "C", "D", "E", "F", "G", "H", "I", "J", "K", "L", "M",
     "N", "O", "P", "Q", "R", "S", "T", "U", "V", "W", "X", "Y", "Z",
     "a", "b", "c", "d", "e", "f", "g", "h", "i", "j", "k", "l", "m",
     "n", "o", "p", "q", "r", "s", "t", "u", "v", "w", "x", "y", "z"}

\* \d of the pattern
IsDigit(c) == c \in DigitChars

\* \w of the pattern
IsWord(c) == c \in WordChars

\* the value of one decimal digit
DigitVal(c) == (CHOOSE i \in 1..Len(Digits) : Digits[i] = c) - 1

\* int(s) for a run of decimal digits: base 10, left to right
RECURSIVE int(_)
int(s) ==
    IF s = <<>> THEN 0
    ELSE 10 * int(SubSeq(s, 1, Len(s) - 1)) + DigitVal(s[Len(s)])

\* s[p:].startswith(t), p 1-based
StartsAt(s, p, t) ==
    /\ p >= 1
    /\ p + Len(t) - 1 <= Len(s)
    /\ SubSeq(s, p, p + Len(t) - 1) = t

\* the operator  t in s  on strings
Contains(s, t) == \E p \in 1..(Len(s) + 1) : StartsAt(s, p, t)

\* str.__lt__: the first differing character decides, a proper prefix is smaller
RECURSIVE StrLess(_, _)
StrLess(a, b) ==
    IF b = <<>> THEN FALSE
    ELSE IF a = <<>> THEN TRUE
    ELSE IF a[1] # b[1] THEN Ord(a[1]) < Ord(b[1])
    ELSE StrLess(Tail(a), Tail(b))

\* sorted() of a set of strings
RECURSIVE SortedStrs(_)
SortedStrs(S) ==
    IF S = {} THEN <<>>
    ELSE LET m == CHOOSE a \in S : \A b \in S \ {a} : StrLess(a, b)
         IN <<m>> \o SortedStrs(S \ {m})

\* str.split('\n')
RECURSIVE split(_)
split(s) ==
    IF \A i \in 1..Len(s) : s[i] # "\n" THEN <<s>>
    ELSE LET k == CHOOSE i \in 1..Len(s) :
                      s[i] = "\n" /\ \A j \in 1..(i - 1) : s[j] # "\n"
         IN <<SubSeq(s, 1, k - 1)>> \o split(SubSeq(s, k + 1, Len(s)))

(***************************************************************************)
(* parse_cells.                                                             *)
(***************************************************************************)
\* the first position >= p of line that does not satisfy the class (the end
\* of a greedy \d+ or \w+ started at p)
RunEnd(line, p, digitsOnly) ==
    IF p > Len(line) THEN p
    ELSE CHOOSE q \in p..(Len(line) + 1) :
             /\ \A r \in p..(q - 1) :
                    IF digitsOnly THEN IsDigit(line[r]) ELSE IsWord(line[r])
             /\ q <= Len(line) =>
                    ~(IF digitsOnly THEN IsDigit(line[q]) ELSE IsWord(line[q]))

NoMatch == [ok |-> FALSE, end |-> 0, groups |-> <<>>]

\* The pattern  name\((\d+),(\d+),(\w+)\)  tried at position p of line.
\* A greedy run that is not followed by the literal the pattern wants cannot
\* be rescued by backtracking: a shorter run is followed by a character of
\* the class, never by ',' or ')'.
MatchAt(line, p, name) ==
    LET lp == p + Len(name)
        e1 == RunEnd(line, lp + 1, TRUE)
        e2 == RunEnd(line, e1 + 1, TRUE)
        e3 == RunEnd(line, e2 + 1, FALSE)
    IN IF /\ StartsAt(line, p, name)
          /\ StartsAt(line, lp, <<"(">>)
          /\ e1 > lp + 1 /\ StartsAt(line, e1, <<",">>)
          /\ e2 > e1 + 1 /\ StartsAt(line, e2, <<",">>)
          /\ e3 > e2 + 1 /\ StartsAt(line, e3, <<")">>)
       THEN [ok |-> TRUE, end |-> e3 + 1,
             groups |-> <<SubSeq(line, lp + 1, e1 - 1),
                          SubSeq(line, e1 + 1, e2 - 1),
                          SubSeq(line, e2 + 1, e3 - 1)>>]
       ELSE NoMatch

\* the positions of line at which the pattern matches
MatchStarts(line, name) ==
    {p \in 1..Len(line) : MatchAt(line, p, name).ok}

\* re.findall(pattern, line) from position p on: the leftmost match at or
\* after p first, the scan resumes where that match ended
RECURSIVE FindAllFrom(_, _, _)
FindAllFrom(line, p, name) ==
    LET later == {q \in MatchStarts(line, name) : q >= p}
    IN IF later = {} THEN <<>>
       ELSE LET first == CHOOSE q \in later : \A r \in later : q <= r
                m == MatchAt(line, first, name)
            IN <<m.groups>> \o FindAllFrom(line, m.end, name)

\* a plausible slip: re.search in place of re.findall (first match only)
findall_first(line, name) ==
    LET all == FindAllFrom(line, 1, name)
    IN IF all = <<>> THEN <<>> ELSE <<all[1]>>

findall(line, name) == FindAllFrom(line, 1, name)

\* the inner loop: one (int(x), int(y), color) per match
RECURSIVE CellsOfMatches(_)
CellsOfMatches(matches) ==
    IF matches = <<>> THEN <<>>
    ELSE <<<<int(matches[1][1]), int(matches[1][2]), matches[1][3]>>>>
         \o CellsOfMatches(Tail(matches))

\* the outer loop over the lines
RECURSIVE CellsOfLines(_, _)
CellsOfLines(lines, name) ==
    IF lines = <<>> THEN <<>>
    ELSE CellsOfMatches(findall(lines[1], name))
         \o CellsOfLines(Tail(lines), name)

parse_cells(text, name) == CellsOfLines(split(text), name)

(***************************************************************************)
(* Inputs of the parser specification.                                      *)
(***************************************************************************)
Fragments ==
    { <<"i","n","_","c","e","l","l","(","0",",","0",",","r","e","d",")"," ","i","n","_","c","e","l","l","(","1",",","0",",","b","l","u","e",")">>,
      <<"i","n","_","c","e","l","l","(","0","3",",","7",",","r","e",")">>,
      <<"o","u","t","_","c","e","l","l","(","1","0",",","1","1",",","b","_","1",")">>,
      <<"i","n","_","c","e","l","l","(","1",","," ","2",",","r","e","d",")">>,
      <<"i","n","_","c","e","l","l","(","-","1",",","2",",","r","e","d",")">>,
      <<"i","n","_","c","e","l","l","(","1",",">>,
      <<"2",",","b","l","u","e",")">>,
      <<"\n">> }

RECURSIVE Texts(_)
Texts(n) ==
    IF n = 0 THEN {<<>>}
    ELSE Texts(n - 1) \cup {t \o f : t \in Texts(n - 1), f \in Fragments}

PredicateNames == { <<"i","n","_","c","e","l","l">>, <<"o","u","t","_","c","e","l","l">>, <<"c","e","l","l">> }

InitIdle ==
    /\ argc = 2
    /\ dirExists = TRUE
    /\ taskExists = TRUE
    /\ listing = {}
    /\ example_files = <<>>
    /\ idx = 1
    /\ exitCode = -1
    /\ calls = <<>>
    /\ outcomes = <<>>
    /\ renders = <<>>

InitParse ==
    /\ InitIdle
    /\ pc = "parse"
    /\ clingo_output \in Texts(MaxFrags)
    /\ predicate_name \in PredicateNames
    /\ cells = <<>>
    /\ grid_title = "Grid"
    /\ stdout = <<>>

\* one call of parse_cells
ParseCells ==
    /\ pc = "parse"
    /\ cells' = parse_cells(clingo_output, predicate_name)
    /\ pc' = "parsed"
    /\ UNCHANGED <<argc, dirExists, taskExists, listing, example_files, idx,
                   clingo_output, predicate_name, grid_title, stdout,
                   exitCode, calls, outcomes, renders>>

NextParse == ParseCells

SpecParse == InitParse /\ [][NextParse]_vars

(***************************************************************************)
(* C1.  What the text holds, stated over the whole text and independently   *)
(* of the scan: s starts an occurrence of name(<digits>,<digits>,<word>)    *)
(* (the separators and the closing parenthesis are found by position). *)
(***************************************************************************)
\* the positions of a ',' that closes a non-empty digit run starting at from
DigitRunSeps(text, from) ==
    {c \in (from + 1)..Len(text) :
        text[c] = "," /\ \A i \in from..(c - 1) : IsDigit(text[i])}

\* the positions of a ')' that closes a non-empty word run starting at from
WordRunCloses(text, from) ==
    {c \in (from + 1)..Len(text) :
        text[c] = ")" /\ \A i \in from..(c - 1) : IsWord(text[i])}

IsOccurrence(text, name, s) ==
    LET lp == s + Len(name)
    IN /\ StartsAt(text, s, name)
       /\ lp <= Len(text) /\ text[lp] = "("
       /\ \E c1 \in DigitRunSeps(text, lp + 1) :
              \E c2 \in DigitRunSeps(text, c1 + 1) :
                  WordRunCloses(text, c2 + 1) # {}

OccurrenceStarts(text, name) ==
    {s \in 1..Len(text) : IsOccurrence(text, name, s)}

\* the number a run of decimal digits denotes: sum of digit * 10^place
RECURSIVE Pow10(_)
Pow10(n) == IF n = 0 THEN 1 ELSE 10 * Pow10(n - 1)

RECURSIVE Denotes(_, _)
Denotes(text, I) ==
    IF I = {} THEN 0
    ELSE LET i == CHOOSE j \in I : TRUE
             hi == CHOOSE j \in I : \A k \in I : k <= j
         IN DigitVal(text[i]) * Pow10(hi - i) + Denotes(text, I \ {i})

TupleOfOccurrence(text, name, s) ==
    LET lp == s + Len(name)
        c1 == CHOOSE c \in DigitRunSeps(text, lp + 1) :
                  \E d \in DigitRunSeps(text, c + 1) :
                      WordRunCloses(text, d + 1) # {}
        c2 == CHOOSE d \in DigitRunSeps(text, c1 + 1) :
                  WordRunCloses(text, d + 1) # {}
        rp == CHOOSE r \in WordRunCloses(text, c2 + 1) : TRUE
    IN <<Denotes(text, (lp + 1)..(c1 - 1)),
         Denotes(text, (c1 + 1)..(c2 - 1)),
         SubSeq(text, c2 + 1, rp - 1)>>

RECURSIVE TuplesInOrder(_, _, _)
TuplesInOrder(text, name, S) ==
    IF S = {} THEN <<>>
    ELSE LET s == CHOOSE a \in S : \A b \in S : a <= b
         IN <<TupleOfOccurrence(text, name, s)>>
            \o TuplesInOrder(text, name, S \ {s})

\* C1: parse_cells returns exactly one tuple per occurrence of
\* name(<digits>,<digits>,<word>) in the text, with the coordinates as base-10
\* integers and the label verbatim, in text order (line by line, left to right);
\* no occurrence gives the empty list.
C1_ParseCellsExact ==
    pc = "parsed" =>
        cells = TuplesInOrder(clingo_output, predicate_name,
                              OccurrenceStarts(clingo_output, predicate_name))

\* a text of two lines with two occurrences on one of them and a coordinate
\* written with a leading zero has been parsed into three tuples
C1_Witness ==
    /\ pc = "parsed"
    /\ Contains(clingo_output, <<"\n">>)
    /\ Contains(clingo_output, <<"(","0","3",",">>)
    /\ Len(cells) = 3
    /\ \E i \in 1..3 : cells[i] = <<3, 7, <<"r","e">>>>

(***************************************************************************)
(* display_grid.  A printed line is a record: its kind, and what the line   *)
(* shows (a row index, column indices, glyphs, a title or a label).         *)
(***************************************************************************)
Line(kind, n, cols, glyphs, text, label) ==
    [kind |-> kind, n |-> n, cols |-> cols, glyphs |-> glyphs,
     text |-> text, label |-> label]

\* print(f"No cells found for {grid_title}.")
NoticeLine(title) == Line("notice", 0, <<>>, <<>>, title, <<>>)
\* the empty line a leading "\n" prints
BlankLine == Line("blank", 0, <<>>, <<>>, "", <<>>)
\* print(f"\n{grid_title}:"), its second line
TitleLine(title) == Line("title", 0, <<>>, <<>>, title, <<>>)
\* print("\nLegend:"), its second line
LegendHead == Line("legendhead", 0, <<>>, <<>>, "Legend:", <<>>)

\* the colored squares of color_map, named by their ANSI color code
color_map ==
    ( <<"c","y","a","n">> :> "#96" @@ <<"r","e","d">> :> "#91" @@ <<"g","r","e","e","n">> :> "#92" @@
      <<"y","e","l","l","o","w">> :> "#93" @@ <<"b","l","u","e">> :> "#94" @@ <<"m","a","g","e","n","t","a">> :> "#95" @@
      <<"w","h","i","t","e">> :> "#97" @@ <<"b","l","a","c","k">> :> "#90" )

\* color_map.get(color, '?')
Glyph(color) == IF color \in DOMAIN color_map THEN color_map[color] ELSE "?"

\* a plausible slip: dict.setdefault, the first tuple of a position wins
RECURSIVE CellDictFirstWins(_)
CellDictFirstWins(cs) ==
    IF cs = <<>> THEN <<>>
    ELSE LET rest == CellDictFirstWins(Tail(cs))
             pos == <<cs[1][1], cs[1][2]>>
         IN [k \in DOMAIN rest \cup {pos} |->
                IF k = pos THEN cs[1][3] ELSE rest[k]]

\* {(x, y): color for x, y, color in cells}: inserted in list order, a later
\* tuple of the same position overwrites the earlier one
RECURSIVE cell_dict(_)
cell_dict(cs) ==
    IF cs = <<>> THEN <<>>
    ELSE LET before == cell_dict(SubSeq(cs, 1, Len(cs) - 1))
             last == cs[Len(cs)]
             pos == <<last[1], last[2]>>
         IN [k \in DOMAIN before \cup {pos} |->
                IF k = pos THEN last[3] ELSE before[k]]

\* the literal of range(11)
GridRange == 11

\* range(n) as a list
range(n) == [i \in 1..n |-> i - 1]

\* a plausible slip: the 1-based columns of a data-bounded variant
ColumnsOneBased == [i \in 1..GridRange |-> i]

\* for x in range(11), of the header and of every row
Columns == range(GridRange)

\* for y in range(11)
Rows == range(GridRange)

HeaderLine == Line("header", 0, Columns, <<>>, "", <<>>)

\* a plausible slip: the lookup key transposed
GlyphAtTransposed(dict, x, y) ==
    IF <<y, x>> \in DOMAIN dict THEN Glyph(dict[<<y, x>>]) ELSE "."

\* what one position of a row prints
GlyphAt(dict, x, y) ==
    IF <<x, y>> \in DOMAIN dict THEN Glyph(dict[<<x, y>>]) ELSE "."

RowLine(dict, y) ==
    Line("row", y, <<>>,
         [i \in 1..Len(Columns) |-> GlyphAt(dict, Columns[i], y)], "", <<>>)

GridLines(cs) ==
    LET dict == cell_dict(cs)
    IN [i \in 1..(Len(Rows) + 1) |->
           IF i = 1 THEN HeaderLine ELSE RowLine(dict, Rows[i - 1])]

\* a plausible slip: the legend built from the list, in list order
LegendColorsUnsorted(cs) == [i \in 1..Len(cs) |-> cs[i][3]]

\* sorted(used_colors), used_colors the set of the colors of cells
LegendColors(cs) == SortedStrs({cs[i][3] : i \in 1..Len(cs)})

LegendLines(cs) ==
    LET cols == LegendColors(cs)
    IN IF cols = <<>> THEN <<>>
       ELSE <<BlankLine, LegendHead>> \o
            [i \in 1..Len(cols) |->
                Line("legend", 0, <<>>, <<Glyph(cols[i])>>, "", cols[i])]

\* a plausible slip: no test for the empty list
DisplayGridNoEmptyTest(cs, title) ==
    <<BlankLine, TitleLine(title)>> \o GridLines(cs) \o LegendLines(cs)

\* everything display_grid prints
display_grid(cs, title) ==
    IF cs = <<>> THEN <<NoticeLine(title)>>
    ELSE <<BlankLine, TitleLine(title)>> \o GridLines(cs) \o LegendLines(cs)

(***************************************************************************)
(* Inputs of the renderer specification.                                    *)
(***************************************************************************)
\* inside the grid, on its last column, right of it and below it
GridPositions == {<<0, 0>>, <<GridRange - 1, 1>>, <<GridRange, 0>>, <<1, GridRange>>}

\* two colors of color_map and one that is not in it (a prefix of "red")
GridLabels == { <<"r","e","d">>, <<"b","l","u","e">>, <<"r","e">> }

CellUniverse == {<<p[1], p[2], l>> : p \in GridPositions, l \in GridLabels}

RECURSIVE CellLists(_)
CellLists(n) ==
    IF n = 0 THEN {<<>>}
    ELSE CellLists(n - 1)
         \cup {cs \o <<c>> : cs \in CellLists(n - 1), c \in CellUniverse}

InitGrid ==
    /\ InitIdle
    /\ pc = "display"
    /\ clingo_output = <<>>
    /\ predicate_name = <<>>
    /\ cells \in CellLists(MaxCells)
    /\ grid_title \in {"INPUT Grid", "OUTPUT Grid"}
    /\ stdout = <<>>

\* one call of display_grid
DisplayGrid ==
    /\ pc = "display"
    /\ stdout' = stdout \o display_grid(cells, grid_title)
    /\ pc' = "displayed"
    /\ UNCHANGED <<argc, dirExists, taskExists, listing, example_files, idx,
                   clingo_output, predicate_name, cells, grid_title,
                   exitCode, calls, outcomes, renders>>

NextGrid == DisplayGrid

SpecGrid == InitGrid /\ [][NextGrid]_vars

(***************************************************************************)
(* Reading the printed lines back.                                          *)
(***************************************************************************)
LinesOfKind(out, kind) == SelectSeq(out, LAMBDA l : l.kind = kind)

Zero2Ten == <<0, 1, 2, 3, 4, 5, 6, 7, 8, 9, 10>>

MaxOf(S) == CHOOSE m \in S : \A n \in S : n <= m

MaxX(cs) == MaxOf({cs[k][1] : k \in 1..Len(cs)})
MaxY(cs) == MaxOf({cs[k][2] : k \in 1..Len(cs)})

\* the indices of the tuples of cs at position (x, y)
TuplesAt(cs, x, y) == {k \in 1..Len(cs) : cs[k][1] = x /\ cs[k][2] = y}

\* C5: display_grid on an empty cell list prints exactly one line, the
\* "No cells found" notice for its title: no title line, no header, no row,
\* no legend.
C5_EmptyNoticeOnly ==
    (pc = "displayed" /\ cells = <<>>) =>
        /\ Len(stdout) = 1
        /\ stdout[1].kind = "notice"
        /\ stdout[1].text = grid_title

C5_Witness ==
    /\ pc = "displayed"
    /\ cells = <<>>
    /\ grid_title = "OUTPUT Grid"
    /\ Len(stdout) = 1

\* C6 as claimed: for a non-empty cell list the grid has the columns
\* 1..max(x) and the rows 1..max(y).
C6_DataBounded ==
    (pc = "displayed" /\ cells # <<>>) =>
        /\ Len(LinesOfKind(stdout, "header")) = 1
        /\ LinesOfKind(stdout, "header")[1].cols
             = [i \in 1..MaxX(cells) |-> i]
        /\ Len(LinesOfKind(stdout, "row")) = MaxY(cells)
        /\ \A i \in 1..Len(LinesOfKind(stdout, "row")) :
               LinesOfKind(stdout, "row")[i].n = i

\* C6 as amended: display_grid has the fixed range only. For a non-empty cell
\* list the header shows the columns 0..10 and the rows are numbered 0..10,
\* whatever max(x) and max(y) are: the width equals max(x) only when that is 11.
C6_FixedRangeOnly ==
    (pc = "displayed" /\ cells # <<>>) =>
        /\ Len(LinesOfKind(stdout, "header")) = 1
        /\ LinesOfKind(stdout, "header")[1].cols = Zero2Ten
        /\ [i \in 1..Len(LinesOfKind(stdout, "row")) |->
               LinesOfKind(stdout, "row")[i].n] = Zero2Ten
        /\ (Len(LinesOfKind(stdout, "header")[1].cols) = MaxX(cells)
               => MaxX(cells) = 11)
        /\ (Len(LinesOfKind(stdout, "row")) = MaxY(cells) => MaxY(cells) = 11)

\* a cell list whose largest x and largest y are 0 was rendered: 11 rows
C6_Witness ==
    /\ pc = "displayed"
    /\ cells # <<>>
    /\ MaxX(cells) = 0
    /\ MaxY(cells) = 0
    /\ Len(LinesOfKind(stdout, "row")) = 11

\* C7: for a non-empty cell list the grid has exactly 11 column indices 0..10
\* and exactly 11 rows 0..10 of 11 positions; a position shows the glyph of a
\* tuple of that position when there is one and '.' otherwise, so a tuple with
\* x > 10 or y > 10 is shown nowhere; and the output is complete (the legend
\* follows the grid).
C7_FixedRange ==
    (pc = "displayed" /\ cells # <<>>) =>
        LET hdr == LinesOfKind(stdout, "header")
            rows == LinesOfKind(stdout, "row")
        IN /\ Len(hdr) = 1
           /\ Len(hdr[1].cols) = 11
           /\ \A j \in 1..11 : hdr[1].cols[j] = j - 1
           /\ Len(rows) = 11
           /\ \A i \in 1..11 :
                 /\ rows[i].n = i - 1
                 /\ Len(rows[i].glyphs) = 11
                 /\ \A j \in 1..11 :
                       IF TuplesAt(cells, j - 1, i - 1) = {}
                       THEN rows[i].glyphs[j] = "."
                       ELSE /\ rows[i].glyphs[j] # "."
                            /\ \E k \in TuplesAt(cells, j - 1, i - 1) :
                                   rows[i].glyphs[j] = Glyph(cells[k][3])
           /\ Len(LinesOfKind(stdout, "legendhead")) = 1

\* a list with one tuple right of the grid, one below it and one on its last
\* column was rendered
C7_Witness ==
    /\ pc = "displayed"
    /\ \E k \in 1..Len(cells) : cells[k][1] > 10
    /\ \E k \in 1..Len(cells) : cells[k][2] > 10
    /\ \E k \in 1..Len(cells) : cells[k][1] = 10 /\ cells[k][2] = 1
    /\ Len(LinesOfKind(stdout, "row")) = 11

\* Python's order of the labels of the model: sorted(["red", "re", "blue"])
\* is ["blue", "re", "red"]
LabelRank == ( <<"b","l","u","e">> :> 1 @@ <<"r","e">> :> 2 @@ <<"r","e","d">> :> 3 )

\* C8: for a non-empty cell list the legend has exactly one line per distinct
\* label of the list (however many tuples carry it, displayed or not), in
\* lexicographic order, each with the glyph of color_map or '?' for a label
\* that is not in color_map.
C8_Legend ==
    (pc = "displayed" /\ cells # <<>>) =>
        LET leg == LinesOfKind(stdout, "legend")
        IN /\ {leg[i].label : i \in 1..Len(leg)}
                = {cells[k][3] : k \in 1..Len(cells)}
           /\ \A i \in 1..(Len(leg) - 1) :
                 /\ LabelRank[leg[i].label] < LabelRank[leg[i + 1].label]
                 /\ StrLess(leg[i].label, leg[i + 1].label)
           /\ \A i \in 1..Len(leg) :
                 leg[i].glyphs =
                    <<IF leg[i].label = <<"r","e","d">> THEN "#91"
                      ELSE IF leg[i].label = <<"b","l","u","e">> THEN "#94"
                      ELSE "?">>
           /\ Len(LinesOfKind(stdout, "legendhead")) = 1

\* three tuples, two of them red and one, right of the grid, with the unknown
\* label re, inserted before the red ones: two legend lines, re first
C8_Witness ==
    /\ pc = "displayed"
    /\ Len(cells) = 3
    /\ cells[1][3] = <<"r","e","d">> /\ cells[2][3] = <<"r","e">> /\ cells[3][3] = <<"r","e","d">>
    /\ cells[2][1] > 10
    /\ Len(LinesOfKind(stdout, "legend")) = 2
    /\ LinesOfKind(stdout, "legend")[1].glyphs = <<"?">>

\* C10: a displayed position that several tuples of the list share shows the
\* glyph of the label of the last of them in list order.
C10_LastWins ==
    (pc = "displayed" /\ cells # <<>>) =>
        LET rows == LinesOfKind(stdout, "row")
        IN \A x \in 0..10, y \in 0..10 :
              TuplesAt(cells, x, y) # {} =>
                  rows[y + 1].glyphs[x + 1]
                      = Glyph(cells[MaxOf(TuplesAt(cells, x, y))][3])

\* two tuples of one displayed position with different glyphs were rendered
C10_Witness ==
    /\ pc = "displayed"
    /\ \E k1, k2 \in 1..Len(cells) :
          /\ k1 < k2
          /\ cells[k1][1] = cells[k2][1] /\ cells[k1][2] = cells[k2][2]
          /\ cells[k1][1] <= 10 /\ cells[k1][2] <= 10
          /\ Glyph(cells[k1][3]) # Glyph(cells[k2][3])
          /\ TuplesAt(cells, cells[k1][1], cells[k1][2]) = {k1, k2}
          /\ LinesOfKind(stdout, "row")[cells[k1][2] + 1].glyphs[cells[k1][1] + 1]
                = Glyph(cells[k2][3])

(***************************************************************************)
(* main, find_example_files and run_clingo.                                 *)
(***************************************************************************)
ExamplePrefix == <<"e","x","a","m","p","l","e","_">>
ExampleSuffix == <<"_","f","a","c","t","s",".","l","p">>

\* fnmatch of a file name against example_*_facts.lp
GlobMatch(f) ==
    /\ Len(f) >= Len(ExamplePrefix) + Len(ExampleSuffix)
    /\ StartsAt(f, 1, ExamplePrefix)
    /\ StartsAt(f, Len(f) - Len(ExampleSuffix) + 1, ExampleSuffix)

\* sorted() descending
RECURSIVE SortedStrsReverse(_)
SortedStrsReverse(S) ==
    IF S = {} THEN <<>>
    ELSE LET m == CHOOSE a \in S : \A b \in S \ {a} : StrLess(b, a)
         IN <<m>> \o SortedStrsReverse(S \ {m})

\* a plausible slip: the files in another order than sorted()
FindExampleFilesUnsorted(files) ==
    SortedStrsReverse({f \in files : GlobMatch(f)})

\* sorted(dir_path.glob("example_*_facts.lp")) for a directory holding files
find_example_files(files) == SortedStrs({f \in files : GlobMatch(f)})

UNSATISFIABLE == <<"U","N","S","A","T","I","S","F","I","A","B","L","E">>
SATISFIABLE == <<"S","A","T","I","S","F","I","A","B","L","E">>

\* a plausible slip: the two markers tested in the other order
OutcomeSatisfiableFirst(text) ==
    IF Contains(text, SATISFIABLE) THEN "Solved"
    ELSE IF Contains(text, UNSATISFIABLE) THEN "NoSolution"
    ELSE "Indeterminate"

\* the if / elif on the markers
Outcome(text) ==
    IF Contains(text, UNSATISFIABLE) THEN "NoSolution"
    ELSE IF ~Contains(text, SATISFIABLE) THEN "Indeterminate"
    ELSE "Solved"

\* a plausible slip: the INPUT grid displayed whatever was parsed
DisplaysInputAlways(input_cells) == TRUE

\* if input_cells:
DisplaysInput(input_cells) == input_cells # <<>>

\* a message line of main
Message(kind) == Line(kind, 0, <<>>, <<>>, "", <<>>)

\* the three lines that open an example: "\n====", "Processing: <name>", "===="
ProcessingLines(f) ==
    <<BlankLine, Message("banner"),
      Line("processing", 0, <<>>, <<>>, "", f), Message("banner")>>

(***************************************************************************)
(* The runs of main: the arguments, the directory and what the solver       *)
(* prints are the environment's choice.                                     *)
(***************************************************************************)
FileUniverse ==
    { <<"e","x","a","m","p","l","e","_","1","_","f","a","c","t","s",".","l","p">>, <<"e","x","a","m","p","l","e","_","1","0","_","f","a","c","t","s",".","l","p">>, <<"e","x","a","m","p","l","e","_","2","_","f","a","c","t","s",".","l","p">>,
      <<"e","x","a","m","p","l","e","_","f","a","c","t","s",".","l","p">> }

SolverOutputs ==
    { <<"S","A","T","I","S","F","I","A","B","L","E","\n","i","n","_","c","e","l","l","(","0",",","0",",","r","e","d",")"," ","i","n","_","c","e","l","l","(","1",",","0",",","b","l","u","e",")","\n","o","u","t","_","c","e","l","l","(","0",",","0",",","b","l","u","e",")">>,
      <<"U","N","S","A","T","I","S","F","I","A","B","L","E">>,
      <<"i","n","_","c","e","l","l","(","0",",","0",",","r","e","d",")","\n","o","u","t","_","c","e","l","l","(","1",",","0",",","r","e","d",")","\n","U","N","S","A","T","I","S","F","I","A","B","L","E">>,
      <<"i","n","_","c","e","l","l","(","2",",","1",",","r","e",")","\n","S","A","T","I","S","F","I","A","B","L","E">>,
      <<"o","u","t","_","c","e","l","l","(","0",",","0",",","r","e","d",")"," ","o","u","t","_","c","e","l","l","(","0",",","0",",","b","l","u","e",")","\n","S","A","T","I","S","F","I","A","B","L","E">>,
      <<"U","N","K","N","O","W","N">>,
      <<"o","u","t","_","c","e","l","l","(","1","1",",","3",",","g","r","e","e","n",")">> }

Init ==
    /\ pc = "start"
    /\ argc \in 1..3
    /\ dirExists \in BOOLEAN
    /\ taskExists \in BOOLEAN
    /\ listing \in SUBSET FileUniverse
    /\ ~dirExists => (~taskExists /\ listing = {})
    /\ Cardinality({f \in listing : GlobMatch(f)}) <= MaxExamples
    /\ example_files = <<>>
    /\ idx = 1
    /\ clingo_output = <<>>
    /\ predicate_name = <<>>
    /\ cells = <<>>
    /\ grid_title = "Grid"
    /\ stdout = <<>>
    /\ exitCode = -1
    /\ calls = <<>>
    /\ outcomes = <<>>
    /\ renders = <<>>

\* sys.exit(1) after one diagnostic line
ExitWith(kind) ==
    /\ stdout' = Append(stdout, Message(kind))
    /\ exitCode' = 1
    /\ pc' = "exit"

\* if len(sys.argv) != 2
CheckArgs ==
    /\ pc = "start"
    /\ IF argc # 2
       THEN ExitWith("usage")
       ELSE pc' = "task" /\ UNCHANGED <<stdout, exitCode>>
    /\ UNCHANGED <<argc, dirExists, taskExists, listing, example_files, idx,
                   clingo_output, predicate_name, cells, grid_title,
                   calls, outcomes, renders>>

\* if not os.path.exists(task_file)
CheckTask ==
    /\ pc = "task"
    /\ IF ~taskExists
       THEN ExitWith("error_task")
       ELSE pc' = "find" /\ UNCHANGED <<stdout, exitCode>>
    /\ UNCHANGED <<argc, dirExists, taskExists, listing, example_files, idx,
                   clingo_output, predicate_name, cells, grid_title,
                   calls, outcomes, renders>>

\* example_files = find_example_files(directory)
FindExampleFiles ==
    /\ pc = "find"
    /\ IF ~dirExists
       THEN ExitWith("error_dir") /\ UNCHANGED example_files
       ELSE /\ example_files' = find_example_files(listing)
            /\ pc' = "examples"
            /\ UNCHANGED <<stdout, exitCode>>
    /\ UNCHANGED <<argc, dirExists, taskExists, listing, idx,
                   clingo_output, predicate_name, cells, grid_title,
                   calls, outcomes, renders>>

\* a plausible slip: the message without the sys.exit(1)
CheckExamplesNoExit ==
    /\ pc = "examples"
    /\ IF example_files = <<>>
       THEN stdout' = Append(stdout, Message("error_noexamples"))
       ELSE UNCHANGED stdout
    /\ pc' = "loop"
    /\ UNCHANGED <<argc, dirExists, taskExists, listing, example_files, idx,
                   clingo_output, predicate_name, cells, grid_title,
                   exitCode, calls, outcomes, renders>>

\* if not example_files
CheckExamples ==
    /\ pc = "examples"
    /\ IF example_files = <<>>
       THEN ExitWith("error_noexamples")
       ELSE pc' = "loop" /\ UNCHANGED <<stdout, exitCode>>
    /\ UNCHANGED <<argc, dirExists, taskExists, listing, example_files, idx,
                   clingo_output, predicate_name, cells, grid_title,
                   calls, outcomes, renders>>

\* the head of an iteration and run_clingo returning the solver's stdout
RunClingo ==
    /\ pc = "loop"
    /\ idx <= Len(example_files)
    /\ stdout' = stdout \o ProcessingLines(example_files[idx])
    /\ calls' = Append(calls, [file |-> example_files[idx], launched |-> TRUE])
    /\ clingo_output' \in SolverOutputs
    /\ pc' = "classify"
    /\ UNCHANGED <<argc, dirExists, taskExists, listing, example_files, idx,
                   predicate_name, cells, grid_title, exitCode, outcomes,
                   renders>>

\* the head of an iteration and run_clingo catching FileNotFoundError
RunClingoNotFound ==
    /\ pc = "loop"
    /\ idx <= Len(example_files)
    /\ stdout' = stdout \o ProcessingLines(example_files[idx])
                   \o <<Message("error_clingo")>>
    /\ calls' = Append(calls, [file |-> example_files[idx], launched |-> FALSE])
    /\ exitCode' = 1
    /\ pc' = "exit"
    /\ UNCHANGED <<argc, dirExists, taskExists, listing, example_files, idx,
                   clingo_output, predicate_name, cells, grid_title,
                   outcomes, renders>>

\* the if / elif / continue after run_clingo
Classify ==
    /\ pc = "classify"
    /\ outcomes' = Append(outcomes,
                     [example |-> idx, ncalls |-> Len(calls),
                      text |-> clingo_output,
                      outcome |-> Outcome(clingo_output)])
    /\ IF Outcome(clingo_output) = "NoSolution"
       THEN /\ stdout' = Append(stdout, Message("nosolution"))
            /\ idx' = idx + 1
            /\ pc' = "loop"
       ELSE /\ stdout' = IF Outcome(clingo_output) = "Indeterminate"
                         THEN Append(stdout, Message("warning"))
                         ELSE stdout
            /\ pc' = "input"
            /\ UNCHANGED idx
    /\ UNCHANGED <<argc, dirExists, taskExists, listing, example_files,
                   clingo_output, predicate_name, cells, grid_title,
                   exitCode, calls, renders>>

Render(title, cs) ==
    [example |-> idx, ncalls |-> Len(calls), title |-> title, cells |-> cs]

\* input_cells = parse_cells(...); if input_cells: display_grid(...)
ShowInput ==
    /\ pc = "input"
    /\ predicate_name' = <<"i","n","_","c","e","l","l">>
    /\ cells' = parse_cells(clingo_output, predicate_name')
    /\ grid_title' = "INPUT Grid"
    /\ IF DisplaysInput(cells')
       THEN /\ stdout' = stdout \o display_grid(cells', grid_title')
            /\ renders' = Append(renders, Render(grid_title', cells'))
       ELSE UNCHANGED <<stdout, renders>>
    /\ pc' = "output"
    /\ UNCHANGED <<argc, dirExists, taskExists, listing, example_files, idx,
                   clingo_output, exitCode, calls, outcomes>>

\* output_cells = parse_cells(...); display_grid(...), and the next iteration
ShowOutput ==
    /\ pc = "output"
    /\ predicate_name' = <<"o","u","t","_","c","e","l","l">>
    /\ cells' = parse_cells(clingo_output, predicate_name')
    /\ grid_title' = "OUTPUT Grid"
    /\ stdout' = stdout \o display_grid(cells', grid_title')
    /\ renders' = Append(renders, Render(grid_title', cells'))
    /\ idx' = idx + 1
    /\ pc' = "loop"
    /\ UNCHANGED <<argc, dirExists, taskExists, listing, example_files,
                   clingo_output, exitCode, calls, outcomes>>

\* the for loop is exhausted and main returns
EndOfLoop ==
    /\ pc = "loop"
    /\ idx > Len(example_files)
    /\ exitCode' = 0
    /\ pc' = "exit"
    /\ UNCHANGED <<argc, dirExists, taskExists, listing, example_files, idx,
                   clingo_output, predicate_name, cells, grid_title, stdout,
                   calls, outcomes, renders>>

\* The environment removes the target directory before main has listed it
\* (what happens to the files later only shows in what the solver prints).
RemoveDirectory ==
    /\ pc \in {"start", "task", "find"}
    /\ dirExists
    /\ dirExists' = FALSE
    /\ taskExists' = FALSE
    /\ listing' = {}
    /\ UNCHANGED <<pc, argc, example_files, idx, clingo_output,
                   predicate_name, cells, grid_title, stdout, exitCode,
                   calls, outcomes, renders>>

Next ==
    \/ CheckArgs
    \/ CheckTask
    \/ FindExampleFiles
    \/ CheckExamples
    \/ RunClingo
    \/ RunClingoNotFound
    \/ Classify
    \/ ShowInput
    \/ ShowOutput
    \/ EndOfLoop
    \/ RemoveDirectory

Spec == Init /\ [][Next]_vars

(***************************************************************************)
(* Reading a run of main back from what it printed and from its history.    *)
(***************************************************************************)
IndicesOfKind(out, kind) == {i \in 1..Len(out) : out[i].kind = kind}

\* the position of the e-th "Processing:" line
ProcessingAt(out, e) ==
    CHOOSE i \in IndicesOfKind(out, "processing") :
        Cardinality({j \in IndicesOfKind(out, "processing") : j <= i}) = e

\* what was printed for the e-th example: from its "Processing:" line up to
\* the next one
Section(out, e) ==
    LET from == ProcessingAt(out, e)
        later == {i \in IndicesOfKind(out, "processing") : i > from}
    IN SubSeq(out, from,
              IF later = {} THEN Len(out)
              ELSE (CHOOSE i \in later : \A j \in later : i <= j) - 1)

GridKinds == {"title", "header", "row", "legendhead", "legend", "notice"}

\* the calls of display_grid made for the e-th example, as <<title, cells>>
RendersOf(e) ==
    LET rs == SelectSeq(renders, LAMBDA r : r.example = e)
    IN [i \in 1..Len(rs) |-> <<rs[i].title, rs[i].cells>>]

\* the process ended with a non-zero status right after one diagnostic of one
\* of the kinds, before any solver call and any example processing
FatalBeforeLoop(kinds) ==
    /\ pc = "exit"
    /\ exitCode \notin {-1, 0}
    /\ Len(stdout) = 1
    /\ stdout[1].kind \in kinds
    /\ calls = <<>>
    /\ outcomes = <<>>
    /\ renders = <<>>

\* C2: an example whose solver output contains UNSATISFIABLE is classified
\* NoSolution: exactly one "No solution found" line and no grid line is
\* printed for it and display_grid is not called for it; the loop goes on (the
\* solver is called for the next example, or main is at the head of the loop
\* about to do so) and after the last example the run ends with exit code 0;
\* a non-zero exit is never due to an unsatisfiable example.
C2_Unsatisfiable ==
    /\ \A e \in 1..Len(outcomes) :
          Contains(outcomes[e].text, UNSATISFIABLE) =>
             /\ outcomes[e].outcome = "NoSolution"
             /\ Len(LinesOfKind(Section(stdout, e), "nosolution")) = 1
             /\ \A i \in 1..Len(Section(stdout, e)) :
                   Section(stdout, e)[i].kind \notin GridKinds \cup {"warning"}
             /\ RendersOf(e) = <<>>
             /\ idx > e
             /\ IF e < Len(example_files)
                THEN Len(calls) > e \/ (pc = "loop" /\ exitCode = -1)
                ELSE (pc = "loop" /\ exitCode = -1)
                     \/ (pc = "exit" /\ exitCode = 0)
    /\ (pc = "exit" /\ exitCode # 0 /\ calls # <<>>)
          => ~calls[Len(calls)].launched

\* a batch of two unsatisfiable examples, the first with cell atoms in its
\* output, has ended with exit code 0 and no grid
C2_Witness ==
    /\ pc = "exit"
    /\ exitCode = 0
    /\ Len(outcomes) = 2
    /\ outcomes[1].text = <<"i","n","_","c","e","l","l","(","0",",","0",",","r","e","d",")","\n","o","u","t","_","c","e","l","l","(","1",",","0",",","r","e","d",")","\n","U","N","S","A","T","I","S","F","I","A","B","L","E">>
    /\ outcomes[2].text = <<"U","N","S","A","T","I","S","F","I","A","B","L","E">>
    /\ renders = <<>>
    /\ Len(LinesOfKind(stdout, "nosolution")) = 2

\* C3: a missing directory, a missing task.lp and a directory without example
\* file each end the run with one diagnostic and a non-zero status before any
\* solver call, classification or rendering; a solver that cannot be launched
\* ends it with a diagnostic and a non-zero status, with nothing classified or
\* rendered for that example or a later one.
C3_FatalPreconditions ==
    /\ (argc = 2 /\ ~dirExists /\ pc \notin {"start", "task", "find"})
          => FatalBeforeLoop({"error_task", "error_dir"})
    /\ (argc = 2 /\ dirExists /\ ~taskExists /\ pc \notin {"start", "task"})
          => FatalBeforeLoop({"error_task"})
    /\ (argc = 2 /\ dirExists /\ taskExists
           /\ listing \cap (FileUniverse \ { <<"e","x","a","m","p","l","e","_","f","a","c","t","s",".","l","p">> }) = {}
           /\ pc \notin {"start", "task", "find", "examples"})
          => FatalBeforeLoop({"error_noexamples"})
    /\ \A i \in 1..Len(calls) :
          ~calls[i].launched =>
             /\ i = Len(calls)
             /\ pc = "exit"
             /\ exitCode \notin {-1, 0}
             /\ stdout[Len(stdout)].kind = "error_clingo"
             /\ Len(LinesOfKind(stdout, "error_clingo")) = 1
             /\ Len(outcomes) = i - 1
             /\ \A k \in 1..Len(renders) : renders[k].example < i

\* the solver could not be launched for the second example, after the grids
\* of the first were rendered
C3_Witness ==
    /\ pc = "exit"
    /\ exitCode = 1
    /\ Len(calls) = 2
    /\ ~calls[2].launched
    /\ Len(renders) = 2
    /\ stdout[Len(stdout)].kind = "error_clingo"

\* what display_grid is expected to be called with for one relation
ExpectedRender(title, cs, always) ==
    IF always \/ cs # <<>> THEN <<<<title, cs>>>> ELSE <<>>

\* C4 as claimed: for a finished example that is not NoSolution, display_grid
\* is called once per non-empty parse result and not for an empty one, INPUT
\* before OUTPUT.
C4_OncePerNonEmpty ==
    \A e \in 1..Len(outcomes) :
        (outcomes[e].outcome # "NoSolution" /\ idx > e) =>
            RendersOf(e) =
                ExpectedRender("INPUT Grid",
                    parse_cells(outcomes[e].text, <<"i","n","_","c","e","l","l">>), FALSE)
                \o ExpectedRender("OUTPUT Grid",
                    parse_cells(outcomes[e].text, <<"o","u","t","_","c","e","l","l">>), FALSE)

\* C4 as amended: for a finished example that is not NoSolution, display_grid
\* is called for the in_cell result only when it is non-empty and for the
\* out_cell result always, both parsed from that example's solver output and
\* INPUT before OUTPUT; an empty out_cell result prints the "No cells found"
\* notice, and no notice is printed otherwise.
C4_InputIfAnyOutputAlways ==
    \A e \in 1..Len(outcomes) :
        (outcomes[e].outcome # "NoSolution" /\ idx > e) =>
            /\ RendersOf(e) =
                  ExpectedRender("INPUT Grid",
                      parse_cells(outcomes[e].text, <<"i","n","_","c","e","l","l">>), FALSE)
                  \o ExpectedRender("OUTPUT Grid",
                      parse_cells(outcomes[e].text, <<"o","u","t","_","c","e","l","l">>), TRUE)
            /\ LinesOfKind(Section(stdout, e), "notice") =
                  IF parse_cells(outcomes[e].text, <<"o","u","t","_","c","e","l","l">>) = <<>>
                  THEN <<NoticeLine("OUTPUT Grid")>> ELSE <<>>

\* a batch has ended in which one example had in_cell atoms only (INPUT grid,
\* then display_grid on the empty OUTPUT result) and the other out_cell atoms
\* only (no INPUT call)
C4_Witness ==
    /\ pc = "exit"
    /\ exitCode = 0
    /\ Len(outcomes) = 2
    /\ outcomes[1].text = <<"i","n","_","c","e","l","l","(","2",",","1",",","r","e",")","\n","S","A","T","I","S","F","I","A","B","L","E">>
    /\ outcomes[2].text = <<"o","u","t","_","c","e","l","l","(","1","1",",","3",",","g","r","e","e","n",")">>
    /\ Len(RendersOf(1)) = 2
    /\ RendersOf(1)[2] = <<"OUTPUT Grid", <<>>>>
    /\ Len(RendersOf(2)) = 1

\* Python's order of the example file names of the model:
\* "example_10_facts.lp" < "example_1_facts.lp" < "example_2_facts.lp"
FileRank ==
    ( <<"e","x","a","m","p","l","e","_","1","0","_","f","a","c","t","s",".","l","p">> :> 1 @@ <<"e","x","a","m","p","l","e","_","1","_","f","a","c","t","s",".","l","p">> :> 2 @@
      <<"e","x","a","m","p","l","e","_","2","_","f","a","c","t","s",".","l","p">> :> 3 )

\* C9: once listed, example_files holds exactly the example_*_facts.lp files of
\* the directory in ascending lexicographic order; the i-th solver call is for
\* the i-th of them, a normal end has made exactly one call per file, and an
\* example is classified and rendered while its own call is the latest one:
\* when the next call is made, the examples before it are finished.
C9_SortedSequential ==
    /\ (pc \in {"examples", "loop", "classify", "input", "output"}
            \/ calls # <<>> \/ exitCode = 0) =>
          /\ {example_files[i] : i \in 1..Len(example_files)}
                = listing \cap DOMAIN FileRank
          /\ \A i \in 1..(Len(example_files) - 1) :
                FileRank[example_files[i]] < FileRank[example_files[i + 1]]
    /\ Len(calls) <= Len(example_files)
    /\ \A i \in 1..Len(calls) : calls[i].file = example_files[i]
    /\ exitCode = 0 => Len(calls) = Len(example_files)
    /\ \A e \in 1..Len(outcomes) :
          outcomes[e].example = e /\ outcomes[e].ncalls = e
    /\ \A k \in 1..Len(renders) : renders[k].ncalls = renders[k].example
    /\ \A e \in 1..(Len(calls) - 1) :
          /\ e <= Len(outcomes)
          /\ outcomes[e].outcome # "NoSolution" =>
                \E k \in 1..Len(renders) :
                    renders[k].example = e /\ renders[k].title = "OUTPUT Grid"

\* a batch over example_10 and example_1, in that order, has ended normally
\* with grids rendered for both
C9_Witness ==
    /\ pc = "exit"
    /\ exitCode = 0
    /\ Len(calls) = 2
    /\ calls[1].file = <<"e","x","a","m","p","l","e","_","1","0","_","f","a","c","t","s",".","l","p">>
    /\ calls[2].file = <<"e","x","a","m","p","l","e","_","1","_","f","a","c","t","s",".","l","p">>
    /\ RendersOf(1) # <<>>
    /\ RendersOf(2) # <<>>

=============================================================================
